---- MODULE Spec2Model ----
(***************************************************************************)
(* A model of actix_error_proc_macros: the derive macro ActixError (an     *)
(* error enum to an Into<HttpResponse> mapping) and the attribute macro    *)
(* proof_route (a handler signature to an ordered, short-circuiting        *)
(* dispatch unit), together with the run-time behaviour of what they emit. *)
(***************************************************************************)
EXTENDS Integers, Sequences, FiniteSets, TLC

\* ------------------------------------------------------------------ bounds
\* An error-type declaration has at most MaxSize annotations and variants
\* together (a variant counts one, each annotation counts one).
MaxSize == 4

\* ------------------------------------------------------------------ state
\* The error type: its declaration, what derive(ActixError) emitted for it,
\* and the last conversion the emitted mapping made.
VARIABLES
    derive_input,      \* the DeriveInput handed to derive(ActixError)
    derived,    \* what the macro emitted: "pending" before it ran
    err,       \* the error instance last rendered (ident 0: none yet)
    rendered    \* the response of the last call of the emitted into()

evars == <<derive_input, derived, err, rendered>>

\* The route: its declaration, what proof_route emitted for it, and the
\* invocations of the emitted dispatch unit.
VARIABLES
    route_args,  \* the ExprCall of the proof_route annotation
    route_item,  \* the ItemFn under it
    unit,        \* what proof_route emitted
    pc,          \* per invocation: idle, extract, invoke, handler, respond
    idx,         \* per invocation: the extraction it stands before
    attempts,    \* per invocation: the extractions attempted: <<binding, request, outcome>>
    bound,       \* per invocation: the bindings made so far
    calls,       \* per invocation: the argument lists the handler was called with
    result,      \* per invocation: what the handler returned
    responses    \* per invocation: the responses returned

run == <<pc, idx, attempts, bound, calls, result, responses>>
rvars == <<route_args, route_item, unit, pc, idx, attempts, bound, calls, result, responses>>

vars == <<derive_input, derived, err, rendered,
          route_args, route_item, unit, pc, idx, attempts, bound, calls, result, responses>>

\* ------------------------------------------------------- the derive input
\* A schema-level attribute.  path is the attribute's name; meta is what
\* attr.parse_args() yields: a Meta::NameValue, another Meta ("Path"), or a
\* parse error ("Err"); key is the name of a NameValue, lit the kind of
\* literal of its value and value the literal's text.
ActixErrorAttr(meta, key, lit, value) ==
    [path |-> "actix_error", meta |-> meta, key |-> key, lit |-> lit, value |-> value]

SchemaAttrs ==
    { ActixErrorAttr("NameValue", "transformer", "Str", "transformer"),
      ActixErrorAttr("NameValue", "transformer", "Str", "not an ident"),
      ActixErrorAttr("NameValue", "other", "Str", "transformer"),
      ActixErrorAttr("NameValue", "transformer", "Int", "1"),
      ActixErrorAttr("Path", "transformer", "", ""),
      ActixErrorAttr("Err", "", "", ""),
      [path |-> "derive", meta |-> "Path", key |-> "Debug", lit |-> "", value |-> ""] }

\* A variant-level attribute: is_ident says whether its arguments parse as a
\* single identifier, arg is their text.
VariantAttrs ==
    { [path |-> "http_status", is_ident |-> TRUE, arg |-> "BadRequest"],
      [path |-> "http_status", is_ident |-> TRUE, arg |-> "Unauthorized"],
      [path |-> "http_status", is_ident |-> FALSE, arg |-> "404"],
      [path |-> "error", is_ident |-> FALSE, arg |-> "test"] }

Shapes == {"Unit", "Unnamed", "Named"}

\* The variants of one declaration whose size (itself and its attributes) is k.
VariantsOfSize(k) ==
    { [fields |-> s, attrs |-> a] : s \in Shapes, a \in [1..(k - 1) -> VariantAttrs] }

\* The variant lists of total size n.
RECURSIVE VariantLists(_)
VariantLists(n) ==
    IF n = 0 THEN { <<>> }
    ELSE UNION { { <<v>> \o rest : v \in VariantsOfSize(k), rest \in VariantLists(n - k) }
                 : k \in 1..n }

\* A variant's identifier is its position in the enum: the identifiers of an
\* enum are pairwise distinct.
WithIdents(vs) ==
    [i \in 1..Len(vs) |-> [ident |-> i, fields |-> vs[i].fields, attrs |-> vs[i].attrs]]

\* An enum declaration with schema attributes a and variants vs.
EnumInput(a, vs) == [data |-> "Enum", attrs |-> a, variants |-> WithIdents(vs)]

\* A declaration that is no enum.
StructInput(a) == [data |-> "Struct", attrs |-> a, variants |-> <<>>]

\* ------------------------------------------------------ derive_actix_error
None == [some |-> FALSE, ident |-> ""]
Some(id) == [some |-> TRUE, ident |-> id]

\* The strings Ident::new accepts; on any other it panics.
ValidIdents == {"transformer"}

Panic(msg) == [ok |-> FALSE, msg |-> msg, arms |-> <<>>]

\* lib.rs 67-71: the actix_error attributes of the enum, in order.
Transformers(input) == SelectSeq(input.attrs, LAMBDA attr : attr.path = "actix_error")

\* A parse that takes any string-valued name-value pair for a transformer.
ParseTransformerAnyKey(attr) ==
    IF attr.meta = "NameValue" /\ attr.lit = "Str" THEN Some(attr.value) ELSE None

\* lib.rs 77-91: the closure of and_then, on one actix_error attribute.
ParseTransformer(attr) ==
    IF attr.meta = "NameValue" /\ attr.key = "transformer" /\ attr.lit = "Str"
    THEN Some(attr.value)
    ELSE None

\* lib.rs 77: transformers.iter().next().and_then(..)
Transformer(input) ==
    IF Transformers(input) = <<>> THEN None ELSE ParseTransformer(Transformers(input)[1])

DefaultStatus == "InternalServerError"

\* lib.rs 96-105: the status constructor of a variant: the default, replaced
\* by each http_status attribute whose arguments parse as an identifier.
RECURSIVE HttpMethodFrom(_, _)
HttpMethodFrom(http_method, attrs) ==
    IF attrs = <<>> THEN http_method
    ELSE LET attr == Head(attrs) IN
         HttpMethodFrom(IF attr.path = "http_status" /\ attr.is_ident
                        THEN attr.arg ELSE http_method,
                        Tail(attrs))

HttpMethod(variant) == HttpMethodFrom(DefaultStatus, variant.attrs)

\* A pattern that takes every variant with fields for a tuple variant.
PatternTupleForNamed(variant) ==
    IF variant.fields = "Unit"
    THEN [ident |-> variant.ident, form |-> "Self::V"]
    ELSE [ident |-> variant.ident, form |-> "Self::V(..)"]

\* lib.rs 107-111: the pattern of a variant's arm.
Pattern(variant) ==
    CASE variant.fields = "Unnamed" -> [ident |-> variant.ident, form |-> "Self::V(..)"]
      [] variant.fields = "Named"   -> [ident |-> variant.ident, form |-> "Self::V{..}"]
      [] variant.fields = "Unit"    -> [ident |-> variant.ident, form |-> "Self::V"]

\* An arm that calls the transformer for unit variants only.
ArmTransformerUnitOnly(variant, transformer) ==
    [pattern |-> Pattern(variant),
     tr |-> IF variant.fields = "Unit" THEN transformer ELSE None,
     http_method |-> HttpMethod(variant)]

\* lib.rs 113-116: one arm; tr names the transformer the arm calls, if any.
Arm(variant, transformer) ==
    [pattern |-> Pattern(variant), tr |-> transformer, http_method |-> HttpMethod(variant)]

\* The macro without the exclusivity check of lines 73-75: the first
\* actix_error attribute wins.
derive_actix_error_first_wins(input) ==
    IF input.data # "Enum"
    THEN Panic("ActixError can only be derived for enums")
    ELSE IF Transformer(input).some /\ Transformer(input).ident \notin ValidIdents
    THEN Panic("Ident::new: not a valid identifier")
    ELSE [ok |-> TRUE, msg |-> "",
          arms |-> [i \in 1..Len(input.variants) |->
                        Arm(input.variants[i], Transformer(input))]]

\* lib.rs 59-128: the macro; ok is FALSE when it panics (no tokens emitted).
derive_actix_error(input) ==
    IF input.data # "Enum"
    THEN Panic("ActixError can only be derived for enums")
    ELSE IF Len(Transformers(input)) > 1
    THEN Panic("The actix_error attribute is exclusive")
    ELSE IF Transformer(input).some /\ Transformer(input).ident \notin ValidIdents
    THEN Panic("Ident::new: not a valid identifier")
    ELSE [ok |-> TRUE, msg |-> "",
          arms |-> [i \in 1..Len(input.variants) |->
                        Arm(input.variants[i], Transformer(input))]]

\* ------------------------------------------------ the generated mapping
\* format!("{:#}", self): the display string of an instance, supplied by the
\* error-message collaborator.
Display(self) == <<"fmt", self.ident>>

\* actix_web::HttpResponse::<Status>(): a response builder at a status.
Builder(status) == [status |-> status, headers |-> <<>>]

\* HttpResponseBuilder::body
Body(builder, body) ==
    [status |-> builder.status, headers |-> builder.headers, body |-> body]

\* tests/with_transformer.rs 8-12: the transformer named "transformer".
ApplyTransformer(tr, req, fmt) ==
    Body([status |-> req.status, headers |-> Append(req.headers, <<"format", fmt>>)],
         <<"no", 0>>)

\* Whether a pattern matches an instance: the pattern's form must be the one
\* of the variant's fields.
Matches(pattern, self) ==
    /\ pattern.ident = self.ident
    /\ pattern.form = (CASE self.fields = "Unnamed" -> "Self::V(..)"
                         [] self.fields = "Named"   -> "Self::V{..}"
                         [] self.fields = "Unit"    -> "Self::V")

MatchingArms(arms, self) == { k \in 1..Len(arms) : Matches(arms[k].pattern, self) }

Unmapped == [status |-> "unmapped", headers |-> <<>>, body |-> <<>>]

\* lib.rs 119-127: the emitted fn into(self): the first matching arm runs.
Into(arms, self) ==
    IF MatchingArms(arms, self) = {} THEN Unmapped
    ELSE LET k == CHOOSE k \in MatchingArms(arms, self) :
                      \A j \in MatchingArms(arms, self) : k <= j
             arm == arms[k]
         IN IF arm.tr.some
            THEN ApplyTransformer(arm.tr.ident, Builder(arm.http_method), Display(self))
            ELSE Body(Builder(arm.http_method), Display(self))

\* ------------------------------------- the error type at compile and run time
NoInstance == [ident |-> 0, fields |-> "Unit"]
Pending == [ok |-> FALSE, msg |-> "pending", arms |-> <<>>]

DeriveInit ==
    /\ derived = Pending
    /\ err = NoInstance
    /\ rendered = Unmapped

\* The compiler expands derive(ActixError) on the declaration.
Derive ==
    /\ derived = Pending
    /\ derived' = derive_actix_error(derive_input)
    /\ UNCHANGED <<derive_input, err, rendered>>
    /\ UNCHANGED rvars

\* Run-time: an instance of variant i is converted by the emitted into().
Render(i) ==
    /\ derived.ok
    /\ err' = [ident |-> derive_input.variants[i].ident, fields |-> derive_input.variants[i].fields]
    /\ rendered' = Into(derived.arms, err')
    /\ UNCHANGED <<derive_input, derived>>
    /\ UNCHANGED rvars

ENext ==
    \/ Derive
    \/ \E i \in 1..Len(derive_input.variants) : Render(i)


\* ------------------------------------------- the error schema, as declared
\* The positions of the actix_error annotations of the declaration.
ActixErrorPositions ==
    { k \in 1..Len(derive_input.attrs) : derive_input.attrs[k].path = "actix_error" }

\* An annotation of the form  transformer = "<string literal>".
WellFormedTransformer(a) ==
    a.path = "actix_error" /\ a.meta = "NameValue" /\ a.key = "transformer" /\ a.lit = "Str"

\* An actix_error annotation of one of the malformed kinds: its arguments do
\* not parse to a name-value pair, the key is wrong, or the value is no string.
MalformedTransformer(a) ==
    a.path = "actix_error" /\ (a.meta # "NameValue" \/ a.key # "transformer" \/ a.lit # "Str")

TransformerDeclared == \E k \in ActixErrorPositions : WellFormedTransformer(derive_input.attrs[k])

\* The positions of the well-formed status tags of a variant.
TagPositions(v) == { k \in 1..Len(v.attrs) : v.attrs[k].path = "http_status" /\ v.attrs[k].is_ident }

\* The status code of a variant: its last well-formed tag, else the default.
StatusCodeOf(v) ==
    IF TagPositions(v) = {} THEN "InternalServerError"
    ELSE v.attrs[CHOOSE k \in TagPositions(v) : \A j \in TagPositions(v) : j <= k].arg

\* The declared variant the rendered instance belongs to.
ErrVariant == derive_input.variants[err.ident]

Rendered == derived.ok /\ err.ident # 0

\* C3: with a transformer configured, the response of every rendered variant
\* (unit, tuple or named, tagged or not) is exactly the transformer applied
\* once to the builder at the variant's status code and the display string;
\* the default body (the display string) is not what is returned.
C3_TransformerVerbatim ==
    (Rendered /\ TransformerDeclared) =>
        /\ rendered = ApplyTransformer("transformer", Builder(StatusCodeOf(ErrVariant)),
                                       Display(err))
        /\ rendered.headers = << <<"format", Display(err)>> >>
        /\ rendered.body # Display(err)

C3_Witness ==
    /\ Rendered /\ TransformerDeclared
    /\ err.fields = "Named"
    /\ StatusCodeOf(ErrVariant) = "Unauthorized"

\* C4: without a transformer, every rendered variant yields its tag's status
\* (InternalServerError when it has none) and its display string as the body,
\* and every declared variant is matched by exactly one arm.
C4_DefaultMapping ==
    (derived.ok /\ ~TransformerDeclared) =>
        /\ \A i \in 1..Len(derive_input.variants) :
              Cardinality(MatchingArms(derived.arms,
                  [ident |-> i, fields |-> derive_input.variants[i].fields])) = 1
        /\ Len(derived.arms) = Len(derive_input.variants)
        /\ err.ident # 0 =>
              rendered = [status |-> StatusCodeOf(ErrVariant), headers |-> <<>>,
                          body |-> Display(err)]

C4_Witness ==
    /\ Rendered /\ ~TransformerDeclared
    /\ Len(derive_input.variants) = 2
    /\ err.ident = 2 /\ err.fields = "Named"
    /\ StatusCodeOf(derive_input.variants[1]) = "BadRequest"
    /\ StatusCodeOf(ErrVariant) = "InternalServerError"
    /\ rendered.status = "InternalServerError"

\* C8: with more than one actix_error annotation on the error type the derive
\* fails at compile time: nothing is emitted, so nothing is ever rendered, and
\* no transformer is picked.
C8_TransformerExclusive ==
    (derived # Pending /\ Cardinality(ActixErrorPositions) > 1) =>
        /\ ~derived.ok
        /\ derived.arms = <<>>
        /\ err = NoInstance /\ rendered = Unmapped

C8_Witness ==
    /\ derived # Pending
    /\ derive_input.data = "Enum"
    /\ Cardinality(ActixErrorPositions) = 2
    /\ WellFormedTransformer(derive_input.attrs[1])
    /\ Len(derive_input.variants) > 0

\* The declaration with every malformed actix_error and http_status annotation
\* taken away.
WithoutMalformed ==
    [data |-> derive_input.data,
     attrs |-> SelectSeq(derive_input.attrs, LAMBDA a : ~MalformedTransformer(a)),
     variants |-> [i \in 1..Len(derive_input.variants) |->
        [ident |-> derive_input.variants[i].ident,
         fields |-> derive_input.variants[i].fields,
         attrs |-> SelectSeq(derive_input.variants[i].attrs,
                             LAMBDA a : ~(a.path = "http_status" /\ ~a.is_ident))]]]

\* C10: a malformed annotation is never rejected.  A single actix_error
\* annotation that is not  transformer = "<string literal>"  gives a mapping
\* without transformer; an http_status annotation that does not parse as an
\* identifier leaves the status as it was; either way the mapping is the one
\* generated without the annotation; and of several well-formed http_status
\* annotations the last one decides.
C10_MalformedIgnored ==
    (derived # Pending /\ derive_input.data = "Enum") =>
        /\ (Cardinality(ActixErrorPositions) = 1
             /\ \A k \in ActixErrorPositions : MalformedTransformer(derive_input.attrs[k]))
            => /\ derived.ok
               /\ \A i \in 1..Len(derived.arms) : ~derived.arms[i].tr.some
        /\ derived.ok =>
              /\ derived = derive_actix_error(WithoutMalformed)
              /\ \A i \in 1..Len(derive_input.variants) :
                    derived.arms[i].http_method = StatusCodeOf(derive_input.variants[i])

C10_Witness ==
    /\ derived.ok
    /\ Cardinality(ActixErrorPositions) = 1
    /\ \A k \in ActixErrorPositions :
          derive_input.attrs[k].meta = "NameValue" /\ derive_input.attrs[k].key = "other"
    /\ Len(derive_input.variants) = 1
    /\ Len(derive_input.variants[1].attrs) = 2
    /\ derive_input.variants[1].attrs[1].arg = "Unauthorized"
    /\ derive_input.variants[1].attrs[2].arg = "404"
    /\ derived.arms[1].http_method = "Unauthorized"

\* ====================================================== proof_route
\* ------------------------------------------------------------------ bounds
\* The annotation proof_route(method(args)) carries at most MaxArgs arguments.
MaxArgs == 2
\* A handler declaration has at most MaxItemSize parameters and parameter
\* attributes together.
MaxItemSize == 3
\* The number of requests in flight on one dispatch unit.
MaxInvocations == 2

\* ------------------------------------------------------ the macro's input
\* The callee of the annotation's call expression: is_path says whether it is
\* an Expr::Path, tokens is its token string.
Funcs ==
    { [is_path |-> TRUE, tokens |-> t]
      : t \in {"get", "put", "post", "delete", "patch", "options", "trace",
               "head", "actix_web :: get"} }
    \cup { [is_path |-> FALSE, tokens |-> "(get)"] }

\* An argument of the call: a string literal, another literal, or an
\* expression that is no literal.
Args ==
    { [lit |-> "Str", text |-> "/"], [lit |-> "Int", text |-> "1"], [lit |-> "", text |-> "PATH"] }

ExprCalls ==
    { [func |-> f, args |-> a] : f \in Funcs, a \in UNION { [1..k -> Args] : k \in 0..MaxArgs } }

\* tests/with_collectors.rs 26: post("/")
PostRoot == [func |-> [is_path |-> TRUE, tokens |-> "post"],
             args |-> << [lit |-> "Str", text |-> "/"] >>]

\* tests/without_transformer.rs 7-19: the error type the handlers return.
TestError ==
    [data |-> "Enum", attrs |-> <<>>,
     variants |-> WithIdents(<<
        [fields |-> "Unit", attrs |-> << [path |-> "error", is_ident |-> FALSE, arg |-> "test"],
                                         [path |-> "http_status", is_ident |-> TRUE, arg |-> "BadRequest"] >>],
        [fields |-> "Unit", attrs |-> << [path |-> "error", is_ident |-> FALSE, arg |-> "test"],
                                         [path |-> "http_status", is_ident |-> TRUE, arg |-> "Unauthorized"] >>],
        [fields |-> "Unit", attrs |-> << [path |-> "error", is_ident |-> FALSE, arg |-> "test"] >>] >>)]

\* An instance of variant v of TestError.
TestErrorValue(v) == [ident |-> v, fields |-> TestError.variants[v].fields]

\* An attribute of a parameter: or(<expr>) names an error value (expr is the
\* variant of TestError it constructs; parses is FALSE when the arguments are
\* no expression), anything else is another attribute.
ParamAttrs ==
    { [path |-> "or", parses |-> TRUE, expr |-> 1],
      [path |-> "or", parses |-> TRUE, expr |-> 3],
      [path |-> "or", parses |-> FALSE, expr |-> 0],
      [path |-> "allow", parses |-> TRUE, expr |-> 0] }

\* The parameter lists of total size n (a parameter and each of its
\* attributes count one).
RECURSIVE ParamLists(_)
ParamLists(n) ==
    IF n = 0 THEN { <<>> }
    ELSE UNION { { << [attrs |-> a] >> \o rest
                   : a \in [1..(k - 1) -> ParamAttrs], rest \in ParamLists(n - k) }
                 : k \in 1..n }

\* A parameter's pattern is its position: the bindings of a signature are
\* pairwise distinct.
WithPats(ps) == [i \in 1..Len(ps) |-> [pat |-> i, attrs |-> ps[i].attrs]]

\* An ItemFn: the handler test_route with typed parameters ps.
ItemFn(ps) == [ident |-> "test_route", inputs |-> WithPats(ps)]

\* -------------------------------------------------------------- proof_route
\* The method list with head let in.
allowed_methods_with_head ==
    {"get", "put", "post", "delete", "patch", "options", "trace", "head"}

\* lib.rs 202
allowed_methods == {"get", "put", "post", "delete", "patch", "options", "trace"}

NoUnit(msg) ==
    [ok |-> FALSE, msg |-> msg, method |-> "", path |-> "", renamed_ident |-> "",
     item |-> <<>>, extractions |-> <<>>, renamed_vars |-> <<>>]

\* lib.rs 204-214: the method, "" standing for a panic.
Method(args) ==
    IF args.func.is_path /\ args.func.tokens \in allowed_methods
    THEN args.func.tokens ELSE ""

\* lib.rs 242-253: attrs.retain over the attributes of one parameter, from
\* the state st = [error_variant, kept, panicked] before them.
RECURSIVE Retain(_, _)
Retain(attrs, st) ==
    IF attrs = <<>> THEN st
    ELSE LET attr == Head(attrs)
             is_or == attr.path = "or"
             error_variant == IF is_or THEN Some(attr.expr) ELSE st.error_variant
         IN Retain(Tail(attrs),
                   [error_variant |-> error_variant,
                    kept |-> IF ~error_variant.some THEN Append(st.kept, attr) ELSE st.kept,
                    panicked |-> st.panicked \/ (is_or /\ ~attr.parses)])

Retained(pat_type) ==
    Retain(pat_type.attrs, [error_variant |-> [some |-> FALSE, ident |-> 0],
                            kept |-> <<>>, panicked |-> FALSE])

\* lib.rs 255-266: the extraction emitted for one parameter.
Extraction(pat_type) ==
    [var_name |-> pat_type.pat, error_variant |-> Retained(pat_type).error_variant]

\* lib.rs 191-286: the macro; ok is FALSE when it panics (no tokens emitted).
proof_route(args, item) ==
    IF ~args.func.is_path THEN NoUnit("Expected a path.")
    ELSE IF Method(args) = "" THEN NoUnit("The method is not a valid HTTP method.")
    ELSE IF Len(args.args) = 0 THEN NoUnit("Expected at least one argument.")
    ELSE IF args.args[1].lit # "Str" THEN NoUnit("Expected a string literal argument.")
    ELSE IF Len(args.args) > 1 THEN NoUnit("Expected only one argument.")
    ELSE IF \E i \in 1..Len(item.inputs) : Retained(item.inputs[i]).panicked
    THEN NoUnit("Expected an enum variant.")
    ELSE [ok |-> TRUE, msg |-> "",
          method |-> Method(args),
          path |-> args.args[1].text,
          renamed_ident |-> "__proof_route_" \o item.ident,
          item |-> [i \in 1..Len(item.inputs) |->
                       [pat |-> item.inputs[i].pat, attrs |-> Retained(item.inputs[i]).kept]],
          extractions |-> [i \in 1..Len(item.inputs) |-> Extraction(item.inputs[i])],
          renamed_vars |-> [i \in 1..Len(item.inputs) |-> item.inputs[i].pat]]

\* ------------------------------------------------- the dispatch unit
\* What <T as FromRequest>::extract(&req).await yields: a value, or one of the
\* extractor's errors (of Json<T>: JsonPayloadError).
ExtractionErrors == {"ContentType", "Overflow"}
Outcomes == {"Ok"} \cup ExtractionErrors

\* actix_web::Error into HttpResponse: the extraction failure's own mapping
\* (tests/with_collectors.rs 73: BadRequest for a body sent without a JSON
\* content type; PayloadTooLarge for a body over the limit).
ErrorResponse(e) ==
    [status |-> IF e = "Overflow" THEN "PayloadTooLarge" ELSE "BadRequest",
     headers |-> <<>>, body |-> <<e, 0>>]

\* The mapping derive(ActixError) emitted for TestError.
TestErrorArms == derive_actix_error(TestError).arms

\* An Err arm that maps the extraction failure itself, override or not.
ErrorExtractorRaw(extraction, e) == ErrorResponse(e)

\* lib.rs 255-259: the Err arm of an extraction.
ErrorExtractor(extraction, e) ==
    IF extraction.error_variant.some
    THEN Into(TestErrorArms, TestErrorValue(extraction.error_variant.ident))
    ELSE ErrorResponse(e)

NoResponse == [status |-> "none", headers |-> <<>>, body |-> <<>>]

\* A match whose Err arm does not return: the unit goes on to the next
\* extraction.
ExtractionMatchGoesOn(extraction, outcome) == [returns |-> FALSE, response |-> NoResponse]

\* lib.rs 261-266: the match on an extraction's outcome: Ok binds the value,
\* Err returns from the unit with the Err arm's response.
ExtractionMatch(extraction, outcome) ==
    IF outcome = "Ok"
    THEN [returns |-> FALSE, response |-> NoResponse]
    ELSE [returns |-> TRUE, response |-> ErrorExtractor(extraction, outcome)]

\* What the business handler returns: Ok(payload) or Err(error).
Payloads == { [status |-> "Ok", headers |-> <<>>, body |-> <<>>],
              [status |-> "NoContent", headers |-> <<>>, body |-> <<>>] }
HandlerResults ==
    { [ok |-> TRUE, payload |-> p, error |-> NoInstance] : p \in Payloads }
    \cup { [ok |-> FALSE, payload |-> NoResponse, error |-> TestErrorValue(v)]
           : v \in 1..Len(TestError.variants) }
NoResult == [ok |-> FALSE, payload |-> NoResponse, error |-> NoInstance]

\* A match that answers every domain error with the default status.
MapResultDefaultStatus(res) ==
    IF res.ok THEN res.payload
    ELSE Body(Builder("InternalServerError"), Display(res.error))

\* lib.rs 280-283: the match on the handler's result.
MapResult(res) == IF res.ok THEN res.payload ELSE Into(TestErrorArms, res.error)

\* Every invocation extracting from one request held in a static.
ReqShared(r) == 1

\* lib.rs 262: the request an invocation extracts from: its own req.
ReqOf(r) == r

\* lib.rs 280: the handler's arguments: the bindings named by renamed_vars.
CallArgs(renamed_vars, bindings) ==
    [k \in 1..Len(renamed_vars) |->
        LET b == CHOOSE b \in 1..Len(bindings) : bindings[b].var_name = renamed_vars[k]
        IN bindings[b].value]

Invocations == 1..MaxInvocations

PendingUnit == NoUnit("pending")

RunInit ==
    /\ unit = PendingUnit
    /\ pc = [r \in Invocations |-> "idle"]
    /\ idx = [r \in Invocations |-> 1]
    /\ attempts = [r \in Invocations |-> <<>>]
    /\ bound = [r \in Invocations |-> <<>>]
    /\ calls = [r \in Invocations |-> <<>>]
    /\ result = [r \in Invocations |-> NoResult]
    /\ responses = [r \in Invocations |-> <<>>]

\* The declarations the macro is checked on: every annotation, every handler.
CInit ==
    /\ route_args \in ExprCalls
    /\ \E n \in 0..MaxItemSize : \E ps \in ParamLists(n) : route_item = ItemFn(ps)
    /\ RunInit
    /\ derive_input = TestError
    /\ DeriveInit

\* The routes that are served: post("/") over every handler.
RInit ==
    /\ route_args = PostRoot
    /\ \E n \in 0..MaxItemSize : \E ps \in ParamLists(n) : route_item = ItemFn(ps)
    /\ RunInit
    /\ derive_input = TestError
    /\ DeriveInit

\* The error types the derive is checked on, beside the route of
\* tests/without_transformer.rs 21-24.
EInit ==
    /\ \E k \in 0..MaxSize :
          \E a \in [1..k -> SchemaAttrs] :
              \/ \E m \in 0..(MaxSize - k) :
                    \E vs \in VariantLists(m) : derive_input = EnumInput(a, vs)
              \/ k <= 2 /\ derive_input = StructInput(a)
    /\ DeriveInit
    /\ route_args = PostRoot
    /\ route_item = ItemFn(<<>>)
    /\ RunInit

\* The compiler expands proof_route on the declaration.
ProofRoute ==
    /\ unit = PendingUnit
    /\ unit' = proof_route(route_args, route_item)
    /\ UNCHANGED <<route_args, route_item, run>>
    /\ UNCHANGED evars

\* A unit that falls off its extractions without calling the handler.
StageFallsOff(k) == IF k > Len(unit.extractions) THEN "idle" ELSE "extract"

\* Where the unit stands before extraction k: at it, or past the last one.
Stage(k) == IF k > Len(unit.extractions) THEN "invoke" ELSE "extract"

\* The server routes a request to the unit: invocation r starts.
Request(r) ==
    /\ unit.ok
    /\ pc[r] = "idle"
    /\ pc' = [pc EXCEPT ![r] = Stage(1)]
    /\ UNCHANGED <<route_args, route_item, unit, idx, attempts, bound, calls, result, responses>>
    /\ UNCHANGED evars

\* lib.rs 261-266: invocation r resumes from the await of extraction idx[r].
Extract(r, outcome) ==
    /\ pc[r] = "extract"
    /\ LET i == idx[r]
           extraction == unit.extractions[i]
       IN /\ attempts' = [attempts EXCEPT ![r] = Append(@, <<extraction.var_name, ReqOf(r), outcome>>)]
          /\ IF ~ExtractionMatch(extraction, outcome).returns
             THEN /\ bound' = [bound EXCEPT ![r] =
                        Append(@, [var_name |-> extraction.var_name,
                                   value |-> <<ReqOf(r), extraction.var_name>>])]
                  /\ idx' = [idx EXCEPT ![r] = i + 1]
                  /\ pc' = [pc EXCEPT ![r] = Stage(i + 1)]
                  /\ UNCHANGED responses
             ELSE /\ responses' = [responses EXCEPT ![r] =
                        Append(@, ExtractionMatch(extraction, outcome).response)]
                  /\ pc' = [pc EXCEPT ![r] = "respond"]
                  /\ UNCHANGED <<bound, idx>>
    /\ UNCHANGED <<route_args, route_item, unit, calls, result>>
    /\ UNCHANGED evars

\* lib.rs 280: invocation r calls the business handler.
Invoke(r) ==
    /\ pc[r] = "invoke"
    /\ calls' = [calls EXCEPT ![r] = Append(@, CallArgs(unit.renamed_vars, bound[r]))]
    /\ pc' = [pc EXCEPT ![r] = "handler"]
    /\ UNCHANGED <<route_args, route_item, unit, idx, attempts, bound, result, responses>>
    /\ UNCHANGED evars

\* lib.rs 280-283: the handler's future completes with res; the match maps it.
Return(r, res) ==
    /\ pc[r] = "handler"
    /\ result' = [result EXCEPT ![r] = res]
    /\ responses' = [responses EXCEPT ![r] = Append(@, MapResult(res))]
    /\ pc' = [pc EXCEPT ![r] = "respond"]
    /\ UNCHANGED <<route_args, route_item, unit, idx, attempts, bound, calls>>
    /\ UNCHANGED evars

CNext == ProofRoute

RNext ==
    \/ ProofRoute
    \/ \E r \in Invocations : Request(r)
    \/ \E r \in Invocations : \E outcome \in Outcomes : Extract(r, outcome)
    \/ \E r \in Invocations : Invoke(r)
    \/ \E r \in Invocations : \E res \in HandlerResults : Return(r, res)

\* derive(ActixError) and the mapping it emits.
SpecError == EInit /\ [][ENext]_vars

\* The compile-time pass of proof_route alone, over every annotation.
SpecCompile == CInit /\ [][CNext]_vars

\* The dispatch unit at run time.
SpecRoute == RInit /\ [][RNext]_vars

\* Every started invocation is polled until it returns: the runtime resumes a
\* future whose await completed, and each await is assumed to complete.
Fairness ==
    \A r \in Invocations :
        /\ WF_vars(\E outcome \in Outcomes : Extract(r, outcome))
        /\ WF_vars(Invoke(r))
        /\ WF_vars(\E res \in HandlerResults : Return(r, res))

FairSpecRoute == RInit /\ [][RNext]_vars /\ WF_vars(ProofRoute) /\ Fairness

\* ------------------------------------------------ the route, as declared
Declared == route_item.inputs
NParams == Len(Declared)

\* The positions of the or attributes of a declared parameter.
OrPositions(p) == { k \in 1..Len(p.attrs) : p.attrs[k].path = "or" }

\* The override a declared parameter carries (0: none): its last or.
OverrideOf(p) ==
    IF OrPositions(p) = {} THEN 0
    ELSE p.attrs[CHOOSE k \in OrPositions(p) : \A j \in OrPositions(p) : j <= k].expr

\* render(e) for an instance of variant v of TestError: the variant's status
\* tag, or the default, and the display string.
Render_TestError(v) ==
    [status |-> StatusCodeOf(TestError.variants[v]), headers |-> <<>>,
     body |-> <<"fmt", v>>]

\* Invocation r has attempted an extraction that failed.
Failed(r) == \E j \in 1..Len(attempts[r]) : attempts[r][j][3] # "Ok"

\* C1: extractions are attempted strictly in declaration order, each at most
\* once; after the first failure no later extraction is attempted and the
\* handler is never invoked; the handler is invoked at most once, only after
\* all extractions succeeded, with the bound values in declaration order.
C1_OrderedShortCircuit ==
    \A r \in Invocations :
        /\ Len(attempts[r]) <= NParams
        /\ \A j \in 1..Len(attempts[r]) :
              /\ attempts[r][j][1] = Declared[j].pat
              /\ attempts[r][j][3] # "Ok" => j = Len(attempts[r])
        /\ Failed(r) => calls[r] = <<>> /\ pc[r] = "respond"
        /\ Len(calls[r]) <= 1
        /\ calls[r] # <<>> =>
              /\ Len(attempts[r]) = NParams
              /\ ~Failed(r)
              /\ calls[r][1] = [k \in 1..NParams |-> <<r, Declared[k].pat>>]

C1_Witness ==
    /\ NParams = 3
    /\ Len(attempts[1]) = 2 /\ attempts[1][2][3] = "Overflow"
    /\ pc[1] = "respond" /\ calls[1] = <<>>
    /\ Len(calls[2]) = 1 /\ Len(calls[2][1]) = 3

\* C2: when the extraction of a parameter fails, the response is render(E)
\* if that parameter carries an override E, whatever the failure was, and the
\* failure's own response if it carries none; the overrides of the other
\* parameters play no part.
C2_OverrideResponse ==
    \A r \in Invocations :
        Failed(r) =>
            LET j == Len(attempts[r])
                e == attempts[r][j][3]
            IN responses[r] =
                 << IF OverrideOf(Declared[j]) # 0
                    THEN Render_TestError(OverrideOf(Declared[j]))
                    ELSE [status |-> IF e = "Overflow" THEN "PayloadTooLarge"
                                     ELSE "BadRequest",
                          headers |-> <<>>, body |-> <<e, 0>>] >>

C2_Witness ==
    /\ NParams = 2
    /\ OverrideOf(Declared[1]) = 3 /\ OverrideOf(Declared[2]) = 0
    /\ Len(attempts[1]) = 1 /\ attempts[1][1][3] = "Overflow"
    /\ responses[1] = << Render_TestError(3) >>
    /\ responses[1][1].status = "InternalServerError"
    /\ Len(attempts[2]) = 2 /\ attempts[2][2][3] = "ContentType"
    /\ responses[2][1].status = "BadRequest"

\* C5: once the handler has returned, the response is its payload unchanged
\* when it returned Ok and render(e) when it returned Err(e).
C5_ResultMapping ==
    \A r \in Invocations :
        result[r] # NoResult =>
            responses[r] = << IF result[r].ok THEN result[r].payload
                              ELSE Render_TestError(result[r].error.ident) >>

C5_Witness ==
    /\ ~result[1].ok /\ result[1].error.ident = 2
    /\ responses[1][1].status = "Unauthorized"
    /\ result[2].ok /\ result[2].payload.status = "NoContent"
    /\ responses[2] = << result[2].payload >>

\* C6: every invocation that started ends in Respond with exactly one
\* response, whatever fails (from some point on every invocation is either
\* never started or in Respond); it never goes back a stage, never retries
\* an extraction, and never leaves Respond or answers twice.
C6_Total ==
    /\ <>[](\A r \in Invocations :
              pc[r] = "idle" \/ (pc[r] = "respond" /\ Len(responses[r]) = 1))
    /\ [](\A r \in Invocations : Len(responses[r]) = (IF pc[r] = "respond" THEN 1 ELSE 0))
    /\ [][\A r \in Invocations :
            /\ idx'[r] >= idx[r]
            /\ Len(attempts'[r]) >= Len(attempts[r])
            /\ pc[r] # "idle" => pc'[r] # "idle"
            /\ pc[r] = "respond" => pc'[r] = "respond" /\ responses'[r] = responses[r]]_vars

C6_Witness ==
    /\ NParams = 2
    /\ pc[1] = "respond" /\ Failed(1) /\ Len(attempts[1]) = 2
    /\ pc[2] = "respond" /\ ~result[2].ok /\ result[2] # NoResult
    /\ Len(responses[1]) = 1 /\ Len(responses[2]) = 1

\* The annotation is valid: a method of the fixed set and exactly one
\* argument, a string literal.
ValidAnnotation ==
    /\ route_args.func.is_path
    /\ route_args.func.tokens \in {"get", "put", "post", "delete", "patch", "options", "trace"}
    /\ Len(route_args.args) = 1
    /\ route_args.args[1].lit = "Str"

\* C7: a dispatch unit is emitted only for a valid annotation; for any other
\* method token, a path that is no string literal, no argument or more than
\* one, the macro fails and emits nothing, not even a part of a unit.
C7_AnnotationValidated ==
    /\ unit.ok => ValidAnnotation
    /\ (unit # PendingUnit /\ ~ValidAnnotation) =>
          /\ ~unit.ok
          /\ unit.msg # ""
          /\ unit.method = "" /\ unit.path = "" /\ unit.renamed_ident = ""
          /\ unit.item = <<>> /\ unit.extractions = <<>> /\ unit.renamed_vars = <<>>

C7_Witness ==
    /\ unit # PendingUnit /\ ~unit.ok
    /\ route_args.func.is_path /\ route_args.func.tokens = "post"
    /\ Len(route_args.args) = 2
    /\ route_args.args[1].lit = "Str"
    /\ NParams = 1

\* What invocation r must answer, from its own attempts and result alone.
OwnResponse(r) ==
    IF Failed(r)
    THEN LET j == Len(attempts[r]) IN
         IF OverrideOf(Declared[j]) # 0
         THEN Render_TestError(OverrideOf(Declared[j]))
         ELSE [status |-> IF attempts[r][j][3] = "Overflow" THEN "PayloadTooLarge"
                          ELSE "BadRequest",
               headers |-> <<>>, body |-> <<attempts[r][j][3], 0>>]
    ELSE IF result[r].ok THEN result[r].payload
    ELSE Render_TestError(result[r].error.ident)

\* C9: with several invocations in flight, each extracts from its own request
\* and binds its own values only, keeps the declaration order whatever the
\* others do, and answers from its own attempts and result alone.
C9_InvocationsIsolated ==
    \A r \in Invocations :
        /\ \A j \in 1..Len(attempts[r]) :
              attempts[r][j][2] = r /\ attempts[r][j][1] = Declared[j].pat
        /\ \A j \in 1..Len(bound[r]) :
              bound[r][j] = [var_name |-> Declared[j].pat, value |-> <<r, Declared[j].pat>>]
        /\ \A c \in 1..Len(calls[r]) : \A k \in 1..Len(calls[r][c]) : calls[r][c][k][1] = r
        /\ pc[r] = "respond" => responses[r] = << OwnResponse(r) >>

C9_Witness ==
    /\ NParams = 2
    /\ pc[1] = "extract" /\ idx[1] = 2 /\ Len(bound[1]) = 1
    /\ pc[2] = "handler" /\ Len(bound[2]) = 2
    /\ bound[1][1].value # bound[2][1].value

====
